---- MODULE Spec2Model ----
(***************************************************************************)
(* Font resolution and glyph-path acquisition of the skottie text layer    *)
(* (modules/skottie/src/layers/TextLayer.cpp): the style token parser      *)
(* FontStyle, the glyph outline extractor parse_glyph_path, the font       *)
(* registry fFonts and the passes of AnimationBuilder::parseFonts.         *)
(***************************************************************************)
EXTENDS Integers, Sequences, FiniteSets, TLC

(***************************************************************************)
(* Strings the code inspects character by character are sequences of       *)
(* one-character strings; the terminating NUL is the end of the sequence.  *)
(***************************************************************************)
gWeightMap ==
  << [fName |-> <<"R","e","g","u","l","a","r">>, fWeight |-> "kNormal_Weight"],
     [fName |-> <<"M","e","d","i","u","m">>, fWeight |-> "kMedium_Weight"],
     [fName |-> <<"B","o","l","d">>, fWeight |-> "kBold_Weight"],
     [fName |-> <<"L","i","g","h","t">>, fWeight |-> "kLight_Weight"],
     [fName |-> <<"B","l","a","c","k">>, fWeight |-> "kBlack_Weight"],
     [fName |-> <<"T","h","i","n">>, fWeight |-> "kThin_Weight"],
     [fName |-> <<"E","x","t","r","a">>, fWeight |-> "kExtraBold_Weight"],
     [fName |-> <<"E","x","t","r","a","B","o","l","d">>, fWeight |-> "kExtraBold_Weight"],
     [fName |-> <<"E","x","t","r","a","L","i","g","h","t">>, fWeight |-> "kExtraLight_Weight"],
     [fName |-> <<"E","x","t","r","a","B","l","a","c","k">>, fWeight |-> "kExtraBlack_Weight"],
     [fName |-> <<"S","e","m","i","B","o","l","d">>, fWeight |-> "kSemiBold_Weight"],
     [fName |-> <<"H","a","i","r","l","i","n","e">>, fWeight |-> "kThin_Weight"],
     [fName |-> <<"N","o","r","m","a","l">>, fWeight |-> "kNormal_Weight"],
     [fName |-> <<"P","l","a","i","n">>, fWeight |-> "kNormal_Weight"],
     [fName |-> <<"S","t","a","n","d","a","r","d">>, fWeight |-> "kNormal_Weight"],
     [fName |-> <<"R","o","m","a","n">>, fWeight |-> "kNormal_Weight"],
     [fName |-> <<"H","e","a","v","y">>, fWeight |-> "kBlack_Weight"],
     [fName |-> <<"D","e","m","i">>, fWeight |-> "kSemiBold_Weight"],
     [fName |-> <<"D","e","m","i","B","o","l","d">>, fWeight |-> "kSemiBold_Weight"],
     [fName |-> <<"U","l","t","r","a">>, fWeight |-> "kExtraBold_Weight"],
     [fName |-> <<"U","l","t","r","a","B","o","l","d">>, fWeight |-> "kExtraBold_Weight"],
     [fName |-> <<"U","l","t","r","a","B","l","a","c","k">>, fWeight |-> "kExtraBlack_Weight"],
     [fName |-> <<"U","l","t","r","a","H","e","a","v","y">>, fWeight |-> "kExtraBlack_Weight"],
     [fName |-> <<"U","l","t","r","a","L","i","g","h","t">>, fWeight |-> "kExtraLight_Weight"] >>

gSlantMap ==
  << [fName |-> <<"I","t","a","l","i","c">>, fSlant |-> "kItalic_Slant"],
     [fName |-> <<"O","b","l","i","q","u","e">>, fSlant |-> "kOblique_Slant"] >>

Str_Foo == <<"F","o","o">>
Str_BoldItalicFoo == <<"B","o","l","d","I","t","a","l","i","c","F","o","o">>
Str_Italic == <<"I","t","a","l","i","c">>
Str_Bolder == <<"B","o","l","d","e","r">>
Str_ItalicBold == <<"I","t","a","l","i","c","B","o","l","d">>

\* strncmp(style, name, strlen(name)) == 0
StrNCmpEq(style, name) ==
  /\ Len(style) >= Len(name)
  /\ SubSeq(style, 1, Len(name)) = name

\* StrCmpEq that compares only the first strlen(name) characters
StrCmpEq_Prefix(style, name) ==
  /\ Len(style) >= Len(name)
  /\ SubSeq(style, 1, Len(name)) = name

\* strcmp(style, name) == 0
StrCmpEq(style, name) == style = name

\* style += n
Advance(style, n) == SubSeq(style, n + 1, Len(style))

\* index of the first entry of gWeightMap that is a prefix of style, 0 when none
RECURSIVE WeightScan(_, _)
WeightScan(style, i) ==
  IF i > Len(gWeightMap) THEN 0
  ELSE IF StrNCmpEq(style, gWeightMap[i].fName) THEN i
  ELSE WeightScan(style, i + 1)

\* the weight loop: the weight found and the rest of the string
WeightPass(style) ==
  LET i == WeightScan(style, 1) IN
    IF i = 0 THEN [weight |-> "kNormal_Weight", style |-> style]
    ELSE [weight |-> gWeightMap[i].fWeight,
          style  |-> Advance(style, Len(gWeightMap[i].fName))]

\* index of the first entry of gSlantMap equal to style, 0 when none
RECURSIVE SlantScan(_, _)
SlantScan(style, i) ==
  IF i > Len(gSlantMap) THEN 0
  ELSE IF StrCmpEq(style, gSlantMap[i].fName) THEN i
  ELSE SlantScan(style, i + 1)

\* the slant loop, entered only when the rest is not empty
SlantPass(style) ==
  LET i == IF style # <<>> THEN SlantScan(style, 1) ELSE 0 IN
    IF i = 0 THEN [slant |-> "kUpright_Slant", style |-> style]
    ELSE [slant |-> gSlantMap[i].fSlant,
          style |-> Advance(style, Len(gSlantMap[i].fName))]

\* Unconsumed that never sees a rest
Unconsumed_Never(style) == FALSE

\* *style != '\0'
Unconsumed(style) == style # <<>>

\* FontStyle as a function: the descriptor returned and the residual warned about
FontStyle(style) ==
  LET w == WeightPass(style)
      s == SlantPass(w.style)
  IN [weight |-> w.weight, width |-> "kNormal_Width", slant |-> s.slant,
      warn |-> Unconsumed(s.style), residual |-> s.style]

\* SkFontStyleOf that returns an italic slant whatever the slant pass found
SkFontStyleOf_Italic(style) ==
  LET r == FontStyle(style)
  IN [weight |-> r.weight, width |-> r.width, slant |-> "kItalic_Slant"]

\* the SkFontStyle value only
SkFontStyleOf(style) ==
  LET r == FontStyle(style)
  IN [weight |-> r.weight, width |-> r.width, slant |-> r.slant]

(***************************************************************************)
(* Bounds of the model.                                                    *)
(***************************************************************************)
MaxFonts  == 2   \* longest "fonts.list" array
MaxChars  == 3   \* longest "chars" array
MaxGroups == 2   \* longest "shapes" array of a glyph
MaxItems  == 2   \* most "it" elements of a glyph, over all its groups

(***************************************************************************)
(* JSON values.  An optional member is <<>> when absent and <<v>> when     *)
(* present.                                                                *)
(***************************************************************************)
Absent  == <<>>
Some(v) == <<v>>
Has(o)  == o # Absent
Val(o)  == o[1]

Names         == {"F1", "F2"}
FontFamilies  == {"Roboto"}
GlyphFamilies == {"Roboto", "Arial"}
Styles        == {gWeightMap[1].fName, Str_Bolder}
Paths         == {"fonts/a.ttf"}
NoFont        == "nofont"

\* an element of "fonts.list"; obj is FALSE for an element that is not an object
NoDecl == [obj |-> FALSE, fName |-> Absent, fFamily |-> Absent,
           fStyle |-> Absent, fPath |-> Absent]
FontDecls ==
  [obj : {TRUE},
   fName   : {Absent, Some("")} \cup {Some(n) : n \in Names},
   fFamily : {Absent, Some("")} \cup {Some(f) : f \in FontFamilies},
   fStyle  : {Absent, Some(<<>>)} \cup {Some(t) : t \in Styles},
   fPath   : {Some(q) : q \in Paths}]
  \cup {NoDecl}

\* "ch" is a sequence of code points; -1 stands for an invalid UTF-8 sequence
ChValues   == {<<>>, <<65>>, <<70000>>, <<65, 65>>, <<-1>>}
MaxGlyphID == 65535

\* the members of an element of "chars" read before its outline
NoChar == [obj |-> FALSE, ch |-> Absent, fFamily |-> Absent, style |-> Absent]
\* elements with one code point that fits a glyph id come with every family
\* and style; of the others the code looks at most at whether family and
\* style are there, and they come with one family and style
CharHeads ==
  [obj : {TRUE},
   ch      : {Some(<<65>>)},
   fFamily : {Absent} \cup {Some(f) : f \in GlyphFamilies},
   style   : {Absent} \cup {Some(t) : t \in Styles}]
  \cup
  [obj : {TRUE},
   ch      : {Absent} \cup {Some(c) : c \in ChValues},
   fFamily : {Some("Roboto")},
   style   : {Some(gWeightMap[1].fName)}]
  \cup {NoChar}

\* what attachPath and the scope's animators give for one "ks"
ItemKinds == {"null", "static", "animated", "nopath", "nopath_animated"}
\* the outline of a static shape, in the percentage space of the file,
\* and "w" values, both counted in 1/10000 units
ShapeCoords == {500000}
Widths      == {Absent, Some(326700)}

\* loadFont gives no data, data that is no font, or font data
FontData == {"nodata", "baddata", "fontdata"}
\* typefaces: null, or the tier that made it
Typefaces == {"null", "data", "system", "legacy", "custom"}

NullStyle == [weight |-> "none", width |-> "none", slant |-> "none"]
Event(ev, font, style, res) == [ev |-> ev, font |-> font, style |-> style, res |-> res]
BoolStr(b) == IF b THEN "true" ELSE "false"

RECURSIVE Perms(_)
Perms(S) ==
  IF S = {} THEN {<<>>}
  ELSE UNION {{<<x>> \o p : p \in Perms(S \ {x})} : x \in S}

(***************************************************************************)
(* State.                                                                  *)
(***************************************************************************)
VARIABLES
  in,             \* the arguments of parseFonts and the builder's flags
  pc,             \* position in parseFonts and the passes it calls
  ret,            \* call site of resolveEmbeddedTypefaces
  i,              \* elements consumed by the running array loop
  k,              \* entries visited by the running fFonts.foreach
  jfont,          \* the "fonts.list" element of the running iteration
  jchar,          \* the "chars" element of the running iteration
  jdata,          \* what its "data" member is
  jgrp,           \* what the "shapes" element of the running iteration is
  jshape,         \* what the "it" element of the running iteration gave
  fFonts,         \* the registry: name -> FontInfo
  current_font,   \* last font located by resolveEmbeddedTypefaces
  path,           \* the SkPath under construction
  nGrp,           \* elements of "shapes" left
  nIt,            \* elements of "it" left
  has_unresolved, \* the running pass's flag
  trace,          \* calls made and passes begun and ended, in order
  logged,         \* messages logged by the last step
  declared,       \* names of the valid declarations read so far
  rejected,       \* elements of "fonts.list" read so far that are no valid declaration
  refFonts,       \* the registry of the pass without the unmatched elements
  refCurrent,     \* its last located font
  fsPc,           \* position in a FontStyle call
  fsInput,        \* its argument
  fsStyle,        \* its style pointer
  fsWeight,       \* its weight
  fsSlant,        \* its slant
  fsWarn,         \* the residual it warned about
  fsRet           \* the SkFontStyle it returned

fsVars == <<fsPc, fsInput, fsStyle, fsWeight, fsSlant, fsWarn, fsRet>>
vars == <<in, pc, ret, i, k, jfont, jchar, jdata, jgrp, jshape, fFonts, current_font,
          path, nGrp, nIt, has_unresolved, trace, logged, declared, rejected,
          refFonts, refCurrent,
          fsPc, fsInput, fsStyle, fsWeight, fsSlant, fsWarn, fsRet>>

\* the arrays are read element by element, so their lengths are not part of in
Inputs ==
  [hasList : BOOLEAN,          \* jfonts and its "list" are present
   hasChars : BOOLEAN,         \* jchars is present
   preferEmbedded : BOOLEAN,   \* fFlags & kPreferEmbeddedFonts
   order : Perms(Names)]       \* slot order of the hash table fFonts

FsIdle ==
  /\ fsPc = "idle" /\ fsInput = <<>> /\ fsStyle = <<>>
  /\ fsWeight = "kNormal_Weight" /\ fsSlant = "kUpright_Slant" /\ fsWarn = Absent
  /\ fsRet = NullStyle

ParseIdle ==
  /\ pc = "start" /\ ret = "none" /\ i = 0 /\ k = 0
  /\ jfont = NoDecl /\ jchar = NoChar
  /\ jdata = "none" /\ jgrp = "none" /\ jshape = "none"
  /\ fFonts = <<>> /\ current_font = NoFont
  /\ path = <<>> /\ nGrp = 0 /\ nIt = 0
  /\ has_unresolved = FALSE
  /\ trace = <<>> /\ logged = <<>> /\ declared = {} /\ rejected = 0
  /\ refFonts = <<>> /\ refCurrent = NoFont

Init ==
  /\ in \in Inputs
  /\ ParseIdle
  /\ FsIdle

(***************************************************************************)
(* The registry and its helpers.                                           *)
(***************************************************************************)
\* SkCustomTypefaceBuilder(): no glyph
EmptyBuilder == <<>>

\* SkCustomTypefaceBuilder::setGlyph
SetGlyphRec(builder, glyph_id, advance, p) ==
  [g \in DOMAIN builder \cup {glyph_id} |->
     IF g = glyph_id THEN [advance |-> advance, path |-> p] ELSE builder[g]]

\* SkCustomTypefaceBuilder::detach: the typeface made of the builder's glyphs
Detach(builder) == IF DOMAIN builder = {} THEN "null" ELSE "custom"

\* the FontInfo aggregate built for a declaration
NewFontInfo(d) ==
  [fFamily |-> Val(d.fFamily),
   fStyle  |-> Val(d.fStyle),
   fPath   |-> IF Has(d.fPath) THEN Val(d.fPath) ELSE "",
   fTypeface |-> "null",
   fCustomBuilder |-> EmptyBuilder]

\* fFonts.set(name, info)
HashSet(fonts, name, info) ==
  [n \in DOMAIN fonts \cup {name} |-> IF n = name THEN info ELSE fonts[n]]

\* InvalidFont without the test of the style's size
InvalidFont_NoStyleSize(d) ==
  \/ ~Has(d.fName)   \/ Val(d.fName) = ""
  \/ ~Has(d.fFamily) \/ Val(d.fFamily) = ""
  \/ ~Has(d.fStyle)

\* the test that rejects a declaration
InvalidFont(d) ==
  \/ ~Has(d.fName)   \/ Val(d.fName) = ""
  \/ ~Has(d.fFamily) \/ Val(d.fFamily) = ""
  \/ ~Has(d.fStyle)  \/ Len(Val(d.fStyle)) = 0

\* FontInfo::matches
Matches(finfo, family, style) ==
  /\ finfo.fFamily = family
  /\ StrCmpEq(finfo.fStyle, style)

\* the order in which fFonts.foreach visits the entries
ForeachOrder(fonts) == SelectSeq(in.order, LAMBDA n : n \in DOMAIN fonts)

\* the foreach that locates a font: every match overwrites the one before
RECURSIVE LocateFrom(_, _, _, _, _)
LocateFrom(fonts, ord, family, style, found) ==
  IF ord = <<>> THEN found
  ELSE LocateFrom(fonts, Tail(ord), family, style,
                  IF Matches(fonts[Head(ord)], family, style) THEN Head(ord) ELSE found)

Locate(fonts, family, style) ==
  LocateFrom(fonts, ForeachOrder(fonts), family, style, NoFont)

\* SkUTF::CountUTF8
CountUTF8(ch) == IF \E j \in 1..Len(ch) : ch[j] = -1 THEN -1 ELSE Len(ch)

\* SkTFitsIn<SkGlyphID>
FitsGlyphID(uni) == uni >= 0 /\ uni <= MaxGlyphID

\* CacheHit that takes any font located before
CacheHit_AnyFont(cur, fonts, family, style) == cur # NoFont

\* current_font && current_font->matches(family, style)
CacheHit(cur, fonts, family, style) ==
  cur # NoFont /\ Matches(fonts[cur], family, style)

\* HeadStep that keeps the font located before when the scan finds none
HeadStep_Stale(h, cur, fonts) ==
  IF ~h.obj THEN [skip |-> TRUE, log |-> <<>>, cur |-> cur]
  ELSE IF ~Has(h.ch) THEN [skip |-> TRUE, log |-> <<>>, cur |-> cur]
  ELSE IF ~Has(h.fFamily) \/ ~Has(h.style) \/ CountUTF8(Val(h.ch)) # 1
    THEN [skip |-> TRUE, log |-> <<"Invalid glyph.">>, cur |-> cur]
  ELSE IF ~FitsGlyphID(Val(h.ch)[1])
    THEN [skip |-> TRUE, log |-> <<"Unsupported glyph ID.">>, cur |-> cur]
  ELSE IF cur # NoFont /\ Matches(fonts[cur], Val(h.fFamily), Val(h.style))
    THEN [skip |-> FALSE, log |-> <<>>, cur |-> cur]
  ELSE LET f == Locate(fonts, Val(h.fFamily), Val(h.style)) IN
    IF f = NoFont /\ cur = NoFont
    THEN [skip |-> TRUE, log |-> <<"Font not found for codepoint.">>, cur |-> NoFont]
    ELSE [skip |-> FALSE, log |-> <<>>, cur |-> IF f = NoFont THEN cur ELSE f]

\* the loop body of resolveEmbeddedTypefaces up to the located font:
\* whether the element is skipped, what is logged, and current_font after it
HeadStep(h, cur, fonts) ==
  IF ~h.obj THEN [skip |-> TRUE, log |-> <<>>, cur |-> cur]
  ELSE IF ~Has(h.ch) THEN [skip |-> TRUE, log |-> <<>>, cur |-> cur]
  ELSE IF ~Has(h.fFamily) \/ ~Has(h.style) \/ CountUTF8(Val(h.ch)) # 1
    THEN [skip |-> TRUE, log |-> <<"Invalid glyph.">>, cur |-> cur]
  ELSE IF ~FitsGlyphID(Val(h.ch)[1])
    THEN [skip |-> TRUE, log |-> <<"Unsupported glyph ID.">>, cur |-> cur]
  ELSE IF CacheHit(cur, fonts, Val(h.fFamily), Val(h.style))
    THEN [skip |-> FALSE, log |-> <<>>, cur |-> cur]
  ELSE LET f == Locate(fonts, Val(h.fFamily), Val(h.style)) IN
    IF f = NoFont
    THEN [skip |-> TRUE, log |-> <<"Font not found for codepoint.">>, cur |-> NoFont]
    ELSE [skip |-> FALSE, log |-> <<>>, cur |-> f]

\* fmgr->makeFromData
MakeFromData(d) == IF d = "fontdata" THEN "data" ELSE "null"

\* attachPath and ascope.release() for one item
AttachPath(kind) ==
  [path_node |-> kind \in {"static", "animated"},
   animators |-> kind \in {"animated", "nopath_animated"}]

\* ItemFails without the test of the animators
ItemFails_PathOnly(kind) ==
  LET r == AttachPath(kind) IN ~r.path_node

\* the test that fails parse_glyph_path on an item
ItemFails(kind) ==
  LET r == AttachPath(kind) IN ~r.path_node \/ r.animators

\* DataResult that takes a missing object for an object without "shapes"
DataResult_AbsentTrue(kind, n) ==
  IF kind = "absent" THEN "true"
  ELSE IF kind = "noshapes" THEN "true"
  ELSE IF n = 0 THEN "true" ELSE "loop"

\* what parse_glyph_path returns before it looks at "shapes": "false", "true",
\* or "loop" when it goes on to the elements of "shapes"
DataResult(kind, n) ==
  IF kind = "absent" THEN "false"
  ELSE IF kind = "noshapes" THEN "true"
  ELSE IF n = 0 THEN "true" ELSE "loop"

\* kPtScale = 0.01f as a divisor, for values counted in 1/10000 units
KPtScaleDen == 100
\* Scale that leaves the value in the units of the file
Scale_None(v) == v

\* multiplication by kPtScale
Scale(v) == v \div KPtScaleDen

\* path.transform(SkMatrix::Scale(kPtScale, kPtScale))
Transform(p) == [j \in 1..Len(p) |-> Scale(p[j])]

\* ParseDefault((*jchar)["w"], 0.0f)
ParseDefault(o, def) == IF Has(o) THEN Val(o) ELSE def

WithTypeface(fonts, n, tf) == [fonts EXCEPT ![n].fTypeface = tf]

\* AnimationBuilder::findFont: fFonts.find(font_name)
FindFont(fonts, font_name) ==
  IF font_name \in DOMAIN fonts THEN Some(fonts[font_name]) ELSE Absent

(***************************************************************************)
(* parseFonts: the font list.                                              *)
(***************************************************************************)
listVars   == <<jfont, declared, rejected>>
glyphVars  == <<jchar, jdata, jgrp, jshape, path, nGrp, nIt>>
shadowVars == <<refFonts, refCurrent>>

\* a declaration with non-empty fName, fFamily and fStyle
ValidDecl(d) ==
  /\ d.obj
  /\ Has(d.fName)   /\ Val(d.fName) # ""
  /\ Has(d.fFamily) /\ Val(d.fFamily) # ""
  /\ Has(d.fStyle)  /\ Val(d.fStyle) # <<>>

Start ==
  /\ pc = "start"
  /\ pc' = IF in.hasList THEN "fonts" ELSE "done"
  /\ logged' = <<>>
  /\ UNCHANGED <<in, ret, i, k, fFonts, current_font, has_unresolved, trace>>
  /\ UNCHANGED <<listVars, glyphVars, shadowVars, fsVars>>

\* one iteration of the first pass
ParseFont ==
  /\ pc = "fonts" /\ i < MaxFonts
  /\ \E d \in FontDecls :
       /\ jfont' = d
       /\ declared' = IF ValidDecl(d) THEN declared \cup {Val(d.fName)} ELSE declared
       /\ rejected' = IF ValidDecl(d) THEN rejected ELSE rejected + 1
       /\ IF ~d.obj THEN logged' = <<>> /\ UNCHANGED fFonts
          ELSE IF InvalidFont(d)
            THEN logged' = <<"Invalid font.">> /\ UNCHANGED fFonts
            ELSE fFonts' = HashSet(fFonts, Val(d.fName), NewFontInfo(d)) /\ logged' = <<>>
  /\ i' = i + 1
  /\ UNCHANGED <<in, pc, ret, k, current_font, has_unresolved, trace>>
  /\ UNCHANGED <<glyphVars, shadowVars, fsVars>>

\* the end of "fonts.list"
FontsDone ==
  /\ pc = "fonts"
  /\ pc' = "optional"
  /\ jfont' = NoDecl
  /\ rejected' = 0
  /\ i' = 0
  /\ logged' = <<>>
  /\ UNCHANGED <<in, ret, k, fFonts, current_font, has_unresolved, trace, declared>>
  /\ UNCHANGED <<glyphVars, shadowVars, fsVars>>

\* entry of resolveEmbeddedTypefaces, called from site
CallEmbedded(site) ==
  /\ pc' = "chars"
  /\ ret' = site
  /\ i' = 0
  /\ current_font' = NoFont
  /\ trace' = Append(trace, Event("embeddedBegin", NoFont, NullStyle, site))
  /\ refFonts' = fFonts
  /\ refCurrent' = NoFont
  /\ UNCHANGED <<in, k, fFonts, has_unresolved>>

\* RunsOptional without the test of the flag
RunsOptional_NoFlag == in.hasChars

\* jchars && (fFlags & kPreferEmbeddedFonts)
RunsOptional == in.hasChars /\ in.preferEmbedded

\* RunsFallback without the test of the flag
RunsFallback_NoFlag == in.hasChars

\* jchars && !(fFlags & kPreferEmbeddedFonts)
RunsFallback == in.hasChars /\ ~in.preferEmbedded

\* the optional pass
OptionalPass ==
  /\ pc = "optional"
  /\ IF RunsOptional
       THEN CallEmbedded("optional")
       ELSE /\ pc' = "nativeCall"
            /\ UNCHANGED <<in, ret, i, k, fFonts, current_font, has_unresolved, trace>>
            /\ UNCHANGED shadowVars
  /\ logged' = <<>>
  /\ UNCHANGED <<listVars, glyphVars, fsVars>>

\* the embedded typeface fallback
Fallback ==
  /\ pc = "fallback"
  /\ IF RunsFallback
       THEN CallEmbedded("fallback")
       ELSE /\ pc' = "done"
            /\ UNCHANGED <<in, ret, i, k, fFonts, current_font, has_unresolved, trace>>
            /\ UNCHANGED shadowVars
  /\ logged' = <<>>
  /\ UNCHANGED <<listVars, glyphVars, fsVars>>

(***************************************************************************)
(* resolveEmbeddedTypefaces.                                               *)
(***************************************************************************)
\* an element whose (family, style) no registered font carries
Unmatched(h) ==
  /\ h.obj /\ Has(h.fFamily) /\ Has(h.style)
  /\ \A n \in DOMAIN fFonts :
       ~(fFonts[n].fFamily = Val(h.fFamily) /\ fFonts[n].fStyle = Val(h.style))

\* the loop body up to the located font
ReadChar ==
  /\ pc = "chars" /\ i < MaxChars
  /\ \E h \in CharHeads :
       LET r == HeadStep(h, current_font, fFonts) IN
         /\ jchar' = h
         /\ current_font' = r.cur
         /\ logged' = r.log
         /\ refCurrent' = IF Unmatched(h) THEN refCurrent
                          ELSE HeadStep(h, refCurrent, refFonts).cur
         /\ pc' = IF r.skip THEN "skip" ELSE "data"
  /\ UNCHANGED <<in, ret, i, k, fFonts, has_unresolved, trace, refFonts>>
  /\ UNCHANGED <<jdata, jgrp, jshape, path, nGrp, nIt>>
  /\ UNCHANGED <<listVars, fsVars>>

\* the locals of an iteration, gone when it ends
EndIteration ==
  /\ i' = i + 1
  /\ pc' = "chars"
  /\ jchar' = NoChar
  /\ jdata' = "none"
  /\ jgrp' = "none"
  /\ jshape' = "none"
  /\ path' = <<>>
  /\ nGrp' = 0
  /\ nIt' = 0

\* "continue"
Continue ==
  /\ pc = "skip"
  /\ EndIteration
  /\ logged' = <<>>
  /\ UNCHANGED <<in, ret, k, fFonts, current_font, has_unresolved, trace>>
  /\ UNCHANGED <<listVars, shadowVars, fsVars>>

\* what (*jchar)["data"] holds: nothing, an object without "shapes",
\* or an object whose "shapes" has n elements
DataKinds == {[kind |-> "absent", n |-> 0], [kind |-> "noshapes", n |-> 0]}
             \cup [kind : {"shapes"}, n : 0..MaxGroups]

\* parse_glyph_path up to the loop over "shapes"
ParseData ==
  /\ pc = "data"
  /\ \E d \in DataKinds :
       LET r == DataResult(d.kind, d.n) IN
         /\ jdata' = d.kind
         /\ pc' = IF r = "false" THEN "skip" ELSE IF r = "true" THEN "set" ELSE "group"
         /\ nGrp' = IF r = "loop" THEN d.n ELSE 0
  /\ logged' = <<>>
  /\ UNCHANGED <<in, ret, i, k, fFonts, current_font, has_unresolved, trace>>
  /\ UNCHANGED <<jchar, jgrp, jshape, path, nIt>>
  /\ UNCHANGED <<listVars, shadowVars, fsVars>>

\* an element of "shapes": not an object, an object without "it",
\* or an object whose "it" has n elements, after done elements before it
GroupKinds(done) == {[kind |-> "null", n |-> 0], [kind |-> "noit", n |-> 0]}
                    \cup [kind : {"it"}, n : 0..(MaxItems - done)]

\* pc after the last element of an "it", with left groups still to read
AfterGroup(left) == IF left = 0 THEN "set" ELSE "group"

\* one iteration of the loop over "shapes", up to its loop over "it"
ParseGroup ==
  /\ pc = "group" /\ nGrp > 0
  /\ \E g \in GroupKinds(Len(path)) :
       /\ jgrp' = g.kind
       /\ IF g.kind # "it" THEN pc' = "skip" /\ UNCHANGED <<nGrp, nIt>>
          ELSE IF g.n = 0
            THEN pc' = AfterGroup(nGrp - 1) /\ nGrp' = nGrp - 1 /\ UNCHANGED nIt
            ELSE pc' = "item" /\ nIt' = g.n /\ UNCHANGED nGrp
  /\ logged' = <<>>
  /\ UNCHANGED <<in, ret, i, k, fFonts, current_font, has_unresolved, trace>>
  /\ UNCHANGED <<jchar, jdata, jshape, path>>
  /\ UNCHANGED <<listVars, shadowVars, fsVars>>

\* one iteration of the loop over "it"
ParseItem ==
  /\ pc = "item" /\ nIt > 0
  /\ \E kind \in ItemKinds, c \in ShapeCoords :
       /\ jshape' = kind
       /\ IF kind = "null" THEN pc' = "skip" /\ UNCHANGED <<path, nGrp, nIt>>
          ELSE IF ItemFails(kind) THEN pc' = "skip" /\ UNCHANGED <<path, nGrp, nIt>>
          ELSE /\ path' = Append(path, c)
               /\ nIt' = nIt - 1
               /\ nGrp' = IF nIt = 1 THEN nGrp - 1 ELSE nGrp
               /\ pc' = IF nIt > 1 THEN "item" ELSE AfterGroup(nGrp - 1)
  /\ logged' = <<>>
  /\ UNCHANGED <<in, ret, i, k, fFonts, current_font, has_unresolved, trace>>
  /\ UNCHANGED <<jchar, jdata, jgrp>>
  /\ UNCHANGED <<listVars, shadowVars, fsVars>>

\* the glyph stored by the loop body for a parsed outline
InsertGlyph(fonts, font, h, w, p) ==
  [fonts EXCEPT ![font].fCustomBuilder =
     SetGlyphRec(@, Val(h.ch)[1], Scale(ParseDefault(w, 0)), Transform(p))]

\* the loop body after parse_glyph_path returned true
SetGlyph ==
  /\ pc = "set"
  /\ \E w \in Widths :
       /\ fFonts' = InsertGlyph(fFonts, current_font, jchar, w, path)
       /\ refFonts' = IF Unmatched(jchar) THEN refFonts
                      ELSE InsertGlyph(refFonts, refCurrent, jchar, w, path)
  /\ EndIteration
  /\ logged' = <<>>
  /\ UNCHANGED <<in, ret, k, current_font, has_unresolved, trace, refCurrent>>
  /\ UNCHANGED <<listVars, fsVars>>

\* CommitFonts without the early return for a resolved entry
CommitFonts_All(fonts) ==
  [n \in DOMAIN fonts |->
     [fonts[n] EXCEPT !.fTypeface = Detach(fonts[n].fCustomBuilder),
                      !.fCustomBuilder = EmptyBuilder]]

\* the final foreach: every entry after it
CommitFonts(fonts) ==
  [n \in DOMAIN fonts |->
     IF fonts[n].fTypeface # "null" THEN fonts[n]
     ELSE [fonts[n] EXCEPT !.fTypeface = Detach(fonts[n].fCustomBuilder),
                           !.fCustomBuilder = EmptyBuilder]]

\* the detach calls of the final foreach, in its order
RECURSIVE DetachEvents(_, _)
DetachEvents(fonts, ord) ==
  IF ord = <<>> THEN <<>>
  ELSE (IF fonts[Head(ord)].fTypeface # "null" THEN <<>>
        ELSE <<Event("detach", Head(ord), NullStyle,
                     Detach(fonts[Head(ord)].fCustomBuilder))>>)
       \o DetachEvents(fonts, Tail(ord))

\* CommitUnresolved with "&=" for "|="
CommitUnresolved_All(fonts) ==
  /\ DOMAIN fonts # {}
  /\ \A n \in DOMAIN fonts :
       fonts[n].fTypeface = "null" /\ Detach(fonts[n].fCustomBuilder) = "null"

\* has_unresolved after the final foreach
CommitUnresolved(fonts) ==
  \E n \in DOMAIN fonts :
    fonts[n].fTypeface = "null" /\ Detach(fonts[n].fCustomBuilder) = "null"

\* the end of "chars": the final pass and the return to the call site
Commit ==
  /\ pc = "chars"
  /\ fFonts' = CommitFonts(fFonts)
  /\ refFonts' = CommitFonts(refFonts)
  /\ has_unresolved' = CommitUnresolved(fFonts)
  /\ trace' = trace \o DetachEvents(fFonts, ForeachOrder(fFonts))
                    \o <<Event("embeddedEnd", NoFont, NullStyle, BoolStr(~has_unresolved'))>>
  /\ pc' = IF ret = "optional" /\ has_unresolved' THEN "nativeCall" ELSE "done"
  /\ logged' = <<>>
  /\ UNCHANGED <<in, ret, i, k, current_font, refCurrent>>
  /\ UNCHANGED <<listVars, glyphVars, fsVars>>

(***************************************************************************)
(* resolveNativeTypefaces.                                                 *)
(***************************************************************************)
NativeCall ==
  /\ pc = "nativeCall"
  /\ pc' = "native"
  /\ k' = 0
  /\ has_unresolved' = FALSE
  /\ trace' = Append(trace, Event("nativeBegin", NoFont, NullStyle, "void"))
  /\ logged' = <<>>
  /\ UNCHANGED <<in, ret, i, fFonts, current_font>>
  /\ UNCHANGED <<listVars, glyphVars, shadowVars, fsVars>>

\* the entry the foreach is visiting
Visited == ForeachOrder(fFonts)[k + 1]

\* the log of a FontStyle call
StyleLog(style) ==
  IF FontStyle(style).warn THEN <<"Unknown font style.">> ELSE <<>>

\* AlreadyResolved without the early return
AlreadyResolved_Never(finfo) == FALSE

\* whether the foreach callback returns at once for an entry
AlreadyResolved(finfo) == finfo.fTypeface # "null"

\* NextTier that goes on to the tier whatever the one before gave
NextTier_Always(tf, tier) == tier

\* if (!finfo->fTypeface): on to the tier, or else on to the next entry
NextTier(tf, tier) == IF tf = "null" THEN tier ELSE "native"

\* an entry that already has a typeface
NativeSkip ==
  /\ pc = "native" /\ k < Len(ForeachOrder(fFonts))
  /\ AlreadyResolved(fFonts[Visited])
  /\ k' = k + 1
  /\ logged' = <<>>
  /\ UNCHANGED <<in, pc, ret, i, fFonts, current_font, has_unresolved, trace>>
  /\ UNCHANGED <<listVars, glyphVars, shadowVars, fsVars>>

\* 1) externally-loaded font
NativeLoad ==
  /\ pc = "native" /\ k < Len(ForeachOrder(fFonts))
  /\ ~AlreadyResolved(fFonts[Visited])
  /\ \E d \in FontData :
       LET tf == MakeFromData(d) IN
         /\ fFonts' = WithTypeface(fFonts, Visited, tf)
         /\ trace' = Append(trace, Event("loadFont", Visited, NullStyle, tf))
         /\ pc' = NextTier(tf, "match")
         /\ k' = IF pc' = "native" THEN k + 1 ELSE k
  /\ logged' = <<>>
  /\ UNCHANGED <<in, ret, i, current_font, has_unresolved>>
  /\ UNCHANGED <<listVars, glyphVars, shadowVars, fsVars>>

\* 2) system font (family/style)
NativeMatch ==
  /\ pc = "match"
  /\ \E tf \in {"null", "system"} :
       /\ fFonts' = WithTypeface(fFonts, Visited, tf)
       /\ trace' = Append(trace, Event("matchFamilyStyle", Visited,
                                       SkFontStyleOf(fFonts[Visited].fStyle), tf))
       /\ pc' = NextTier(tf, "legacy")
       /\ k' = IF pc' = "native" THEN k + 1 ELSE k
  /\ logged' = StyleLog(fFonts[Visited].fStyle)
  /\ UNCHANGED <<in, ret, i, current_font, has_unresolved>>
  /\ UNCHANGED <<listVars, glyphVars, shadowVars, fsVars>>

\* LegacyUnresolved that flags every entry that came down to the last resort
LegacyUnresolved_Always(prev, tf) == TRUE

\* LegacyUnresolved with "=" for "|="
LegacyUnresolved_Last(prev, tf) == tf = "null"

\* has_unresolved |= !finfo->fTypeface
LegacyUnresolved(prev, tf) == prev \/ tf = "null"

\* 3) system default
NativeLegacy ==
  /\ pc = "legacy"
  /\ \E tf \in {"null", "legacy"} :
       /\ fFonts' = WithTypeface(fFonts, Visited, tf)
       /\ trace' = Append(trace, Event("legacyMakeTypeface", Visited,
                                       SkFontStyleOf(fFonts[Visited].fStyle), tf))
       /\ has_unresolved' = LegacyUnresolved(has_unresolved, tf)
  /\ logged' = <<"Could not create typeface.">> \o StyleLog(fFonts[Visited].fStyle)
  /\ pc' = "native"
  /\ k' = k + 1
  /\ UNCHANGED <<in, ret, i, current_font>>
  /\ UNCHANGED <<listVars, glyphVars, shadowVars, fsVars>>

\* the return of resolveNativeTypefaces to parseFonts
NativeEnd ==
  /\ pc = "native" /\ k = Len(ForeachOrder(fFonts))
  /\ trace' = Append(trace, Event("nativeEnd", NoFont, NullStyle, BoolStr(~has_unresolved)))
  /\ pc' = IF has_unresolved THEN "fallback" ELSE "done"
  /\ logged' = <<>>
  /\ UNCHANGED <<in, ret, i, k, fFonts, current_font, has_unresolved>>
  /\ UNCHANGED <<listVars, glyphVars, shadowVars, fsVars>>

Next ==
  \/ Start \/ ParseFont \/ FontsDone \/ OptionalPass \/ Fallback
  \/ ReadChar \/ Continue \/ ParseData \/ ParseGroup \/ ParseItem \/ SetGlyph \/ Commit
  \/ NativeCall \/ NativeSkip \/ NativeLoad \/ NativeMatch \/ NativeLegacy \/ NativeEnd

Spec == Init /\ [][Next]_vars

(***************************************************************************)
(* FontStyle, statement by statement, on the style strings below.          *)
(***************************************************************************)
\* an absent slant token, and the two of gSlantMap
SlantTokens ==
  {[fName |-> <<>>, fSlant |-> "kUpright_Slant"]} \cup {gSlantMap[j] : j \in 1..Len(gSlantMap)}

\* every weight token followed by an optional slant token, the same followed
\* by unknown text, and other strings
StyleInputs ==
  {gWeightMap[j].fName \o s.fName : j \in 1..Len(gWeightMap), s \in SlantTokens}
  \cup {gWeightMap[j].fName \o s.fName \o Str_Foo :
          j \in 1..Len(gWeightMap), s \in SlantTokens}
  \cup {<<>>, Str_Foo, Str_BoldItalicFoo, Str_Italic, Str_Bolder, Str_ItalicBold}

InitStyle ==
  /\ in = [hasList |-> FALSE, hasChars |-> FALSE, preferEmbedded |-> FALSE,
           order |-> <<"F1", "F2">>]
  /\ ParseIdle
  /\ fsPc = "weight"
  /\ fsInput \in StyleInputs
  /\ fsStyle = fsInput
  /\ fsWeight = "kNormal_Weight"
  /\ fsSlant = "kUpright_Slant"
  /\ fsWarn = Absent
  /\ fsRet = NullStyle

parseVars == <<in, pc, ret, i, k, fFonts, current_font, has_unresolved, trace>>

\* the loop over gWeightMap
FsWeight ==
  /\ fsPc = "weight"
  /\ fsWeight' = WeightPass(fsStyle).weight
  /\ fsStyle' = WeightPass(fsStyle).style
  /\ fsPc' = "slant"
  /\ UNCHANGED <<fsInput, fsSlant, fsWarn, fsRet, logged>>
  /\ UNCHANGED <<parseVars, listVars, glyphVars, shadowVars>>

\* the loop over gSlantMap
FsSlant ==
  /\ fsPc = "slant"
  /\ fsSlant' = SlantPass(fsStyle).slant
  /\ fsStyle' = SlantPass(fsStyle).style
  /\ fsPc' = "warn"
  /\ UNCHANGED <<fsInput, fsWeight, fsWarn, fsRet, logged>>
  /\ UNCHANGED <<parseVars, listVars, glyphVars, shadowVars>>

\* the warning and the return
FsReturn ==
  /\ fsPc = "warn"
  /\ fsWarn' = IF Unconsumed(fsStyle) THEN Some(fsStyle) ELSE Absent
  /\ logged' = IF Unconsumed(fsStyle) THEN <<"Unknown font style.">> ELSE <<>>
  /\ fsRet' = [weight |-> fsWeight, width |-> "kNormal_Width", slant |-> fsSlant]
  /\ fsPc' = "done"
  /\ UNCHANGED <<fsInput, fsStyle, fsWeight, fsSlant>>
  /\ UNCHANGED <<parseVars, listVars, glyphVars, shadowVars>>

NextStyle == FsWeight \/ FsSlant \/ FsReturn

SpecStyle == InitStyle /\ [][NextStyle]_vars

\* FontStyle is straight-line code over two bounded loops: it runs to its return
SpecStyleLive == SpecStyle /\ WF_vars(NextStyle)

(***************************************************************************)
(* Properties.                                                             *)
(***************************************************************************)
\* positions of the events ev in trace
Idx(ev) == {j \in 1..Len(trace) : trace[j].ev = ev}

\* the last event of trace
LastEvent == IF trace = <<>> THEN Event("none", NoFont, NullStyle, "void")
             ELSE trace[Len(trace)]

NativeTiers == {"loadFont", "matchFamilyStyle", "legacyMakeTypeface"}

\* a tier of the native pass gave font n a typeface
NativeGave(n) ==
  \E j \in 1..Len(trace) :
    trace[j].font = n /\ trace[j].ev \in NativeTiers /\ trace[j].res # "null"

\* the embedded pass gave font n a custom typeface
CustomGave(n) ==
  \E j \in Idx("detach") : trace[j].font = n /\ trace[j].res = "custom"

\* a tier of the native pass was called for font n
NativeCalled(n) ==
  \E j \in 1..Len(trace) : trace[j].font = n /\ trace[j].ev \in NativeTiers

InEmbeddedPass == pc \in {"chars", "skip", "data", "group", "item", "set"}

AllResolved == \A n \in DOMAIN fFonts : fFonts[n].fTypeface # "null"

\* C1: for every style string made of one token of the weight table and an
\* optional slant token, FontStyle returns the weight mapped to that token and
\* that slant (upright when there is no slant token).
C1_TokensRecovered ==
  fsPc = "done" =>
    \A j \in 1..Len(gWeightMap), s \in SlantTokens :
      fsInput = gWeightMap[j].fName \o s.fName =>
        fsWeight = gWeightMap[j].fWeight /\ fsSlant = s.fSlant

C3_Monotonic ==
  /\ [][\A n \in DOMAIN fFonts :
          fFonts[n].fTypeface # "null" =>
            n \in DOMAIN fFonts' /\ fFonts'[n].fTypeface = fFonts[n].fTypeface]_vars
  /\ [](\A n \in DOMAIN fFonts : ~(NativeGave(n) /\ CustomGave(n)))

\* a font resolved by the native pass is still so after the final pass of the
\* embedded fallback gave another font a custom typeface
C3_Witness ==
  /\ pc = "done" /\ ret = "fallback"
  /\ \E n, m \in DOMAIN fFonts :
       /\ fFonts[n].fTypeface = "system" /\ NativeGave(n)
       /\ fFonts[m].fTypeface = "custom" /\ CustomGave(m)

\* the embedded pass began before any native pass
EmbeddedFirst ==
  \E j \in Idx("embeddedBegin") : \A m \in Idx("nativeBegin") : j < m

\* the embedded pass began after the native pass ended
EmbeddedAfter ==
  \E j \in Idx("embeddedBegin") : \E m \in Idx("nativeEnd") : m < j

\* C4: with a font list, the embedded pass runs first iff there is glyph data
\* and the flag is set, and parseFonts stops there iff it returned true;
\* otherwise the native pass runs; the embedded pass runs after the native
\* pass iff there is glyph data, the flag is not set and the native pass
\* returned false; each pass runs at most once.
C4_PassOrder ==
  /\ Cardinality(Idx("embeddedBegin")) <= 1
  /\ Cardinality(Idx("nativeBegin")) <= 1
  /\ (pc = "done" /\ in.hasList) =>
       /\ EmbeddedFirst <=> (in.hasChars /\ in.preferEmbedded)
       /\ EmbeddedFirst =>
            (Idx("nativeBegin") = {}
               <=> \E j \in Idx("embeddedEnd") : trace[j].res = "true")
       /\ ~EmbeddedFirst => Idx("nativeBegin") # {}
       /\ EmbeddedAfter <=>
            /\ in.hasChars /\ ~in.preferEmbedded
            /\ \E j \in Idx("nativeEnd") : trace[j].res = "false"

\* the native pass failed and the embedded pass ran as the fallback
C4_Witness == pc = "done" /\ in.hasList /\ EmbeddedAfter

\* C5: with the flag set, a font the embedded pass gave a custom typeface gets
\* no call of a native tier in the run.
C5_NoNativeCallForEmbedded ==
  in.preferEmbedded =>
    \A n \in DOMAIN fFonts : CustomGave(n) => ~NativeCalled(n)

\* the embedded pass resolved one font and the native pass ran for another
C5_Witness ==
  /\ in.preferEmbedded /\ pc = "done"
  /\ \E n, m \in DOMAIN fFonts :
       n # m /\ CustomGave(n) /\ fFonts[n].fTypeface = "custom" /\ NativeCalled(m)

\* C6: resolveNativeTypefaces returns true iff every registered font has a
\* typeface when it returns.
C6_NativeResult ==
  LastEvent.ev = "nativeEnd" => (LastEvent.res = "true" <=> AllResolved)

\* the native pass returned true with one font resolved before it and one
\* resolved by the legacy default
C6_Witness ==
  /\ LastEvent.ev = "nativeEnd" /\ LastEvent.res = "true"
  /\ \E n, m \in DOMAIN fFonts :
       fFonts[n].fTypeface = "custom" /\ fFonts[m].fTypeface = "legacy"

\* C7: resolveEmbeddedTypefaces returns true iff every registered font has a
\* typeface when it returns; a font without typeface and without glyph gets a
\* null typeface from its builder and makes the pass return false.
C7_EmbeddedResult ==
  /\ [](LastEvent.ev = "embeddedEnd" => (LastEvent.res = "true" <=> AllResolved))
  /\ [][(pc = "chars" /\ trace' # trace) =>
          \A n \in DOMAIN fFonts :
            (fFonts[n].fTypeface = "null" /\ fFonts[n].fCustomBuilder = EmptyBuilder) =>
              /\ fFonts'[n].fTypeface = "null"
              /\ trace'[Len(trace')].res = "false"]_vars

\* the embedded pass returned false: one font got a custom typeface and one,
\* without glyph, a null one
C7_Witness ==
  /\ LastEvent.ev = "embeddedEnd" /\ LastEvent.res = "false"
  /\ \E n, m \in DOMAIN fFonts :
       /\ fFonts[n].fTypeface = "custom"
       /\ fFonts[m].fTypeface = "null"
       /\ \E j \in Idx("detach") : trace[j].font = m /\ trace[j].res = "null"

\* C8: the registry holds an entry for a name only if a declaration with that
\* name has non-empty fName, fFamily and fStyle; any other element of the list
\* leaves the registry as it is, and a valid declaration is registered
\* whatever came before it.
C8_RegistryOnlyValid ==
  /\ [](DOMAIN fFonts \subseteq declared)
  /\ [][(pc = "fonts" /\ pc' = "fonts") =>
          IF ValidDecl(jfont')
            THEN /\ Val(jfont'.fName) \in DOMAIN fFonts'
                 /\ fFonts'[Val(jfont'.fName)].fFamily = Val(jfont'.fFamily)
                 /\ fFonts'[Val(jfont'.fName)].fStyle = Val(jfont'.fStyle)
            ELSE fFonts' = fFonts]_vars

\* a valid declaration is registered after an element that was rejected
C8_Witness ==
  /\ pc = "fonts" /\ rejected > 0 /\ ValidDecl(jfont)
  /\ DOMAIN fFonts = {Val(jfont.fName)}

\* C9: during the embedded pass and at its return, the builders and typefaces
\* are those of the pass run on the list without the elements whose (family,
\* style) matches no registered font.
C9_UnmatchedNoEffect ==
  (InEmbeddedPass \/ LastEvent.ev = "embeddedEnd") => fFonts = refFonts

\* an unmatched element is skipped right after an element of a font that has
\* a glyph in its builder
C9_Witness ==
  /\ pc = "skip" /\ Unmatched(jchar)
  /\ current_font = NoFont /\ refCurrent # NoFont
  /\ fFonts[refCurrent].fCustomBuilder # EmptyBuilder

\* an item that gives no path, or gives an animator
BadItem(kind) == kind \in {"animated", "nopath", "nopath_animated"}

\* C10: when an item of a glyph gives no path or gives an animator,
\* parse_glyph_path returns false whatever the items before it gave, and
\* nothing is stored for the glyph in any builder.
C10_BadItemFailsGlyph ==
  /\ [](BadItem(jshape) => pc = "skip")
  /\ [][(BadItem(jshape) \/ BadItem(jshape')) => fFonts' = fFonts]_vars

\* an animated item fails a glyph after a static item of the same glyph
C10_Witness == pc = "skip" /\ jshape = "animated" /\ Len(path) >= 1

\* the style strings made of a weight token, a slant token of gSlantMap and "Foo"
TokensThenFoo ==
  {[w |-> gWeightMap[j], s |-> gSlantMap[m]] :
     j \in 1..Len(gWeightMap), m \in 1..Len(gSlantMap)}

\* the weight tokens no earlier entry of gWeightMap is a prefix of
Unshadowed ==
  {j \in 1..Len(gWeightMap) :
     \A m \in 1..(j - 1) : ~StrNCmpEq(gWeightMap[j].fName, gWeightMap[m].fName)}

\* C11 as stated: for a weight token, a slant token and then unknown text,
\* FontStyle returns the weight and the slant of the tokens and warns about the
\* unknown text only; "BoldItalicFoo" gives Bold, Italic and the residual "Foo".
C11_ResidualOnly ==
  fsPc = "done" =>
    /\ \A t \in TokensThenFoo :
         fsInput = t.w.fName \o t.s.fName \o Str_Foo =>
           fsRet.slant = t.s.fSlant /\ fsWarn = Some(Str_Foo)
    /\ fsInput = Str_BoldItalicFoo =>
         /\ fsRet.weight = "kBold_Weight" /\ fsRet.slant = "kItalic_Slant"
         /\ fsWarn = Some(Str_Foo)

\* C11, amended: for a weight token no earlier table entry is a prefix of, a
\* slant token and then unknown text, FontStyle returns the weight of the
\* token, leaves the slant upright and warns about everything after the weight
\* token, the slant token included; "BoldItalicFoo" gives Bold, upright and
\* the residual "ItalicFoo".
C11_SlantNeedsWholeRest ==
  fsPc = "done" =>
    /\ \A t \in TokensThenFoo :
         (fsInput = t.w.fName \o t.s.fName \o Str_Foo
            /\ \E j \in Unshadowed : gWeightMap[j] = t.w) =>
           /\ fsRet.weight = t.w.fWeight
           /\ fsRet.slant = "kUpright_Slant"
           /\ fsWarn = Some(t.s.fName \o Str_Foo)
    /\ fsInput = Str_BoldItalicFoo =>
         /\ fsRet.weight = "kBold_Weight" /\ fsRet.slant = "kUpright_Slant"
         /\ fsWarn = Some(Str_Italic \o Str_Foo)

\* FontStyle returned for "BoldItalicFoo" with a warning
C11_Witness ==
  fsPc = "done" /\ fsInput = Str_BoldItalicFoo /\ Has(fsWarn)
     /\ logged = <<"Unknown font style.">>

\* a weight token or nothing, then a slant token or nothing
Consumable ==
  {w \o t.fName : w \in {<<>>} \cup {gWeightMap[j].fName : j \in 1..Len(gWeightMap)},
                  t \in SlantTokens}

\* C18: FontStyle returns for every input, with a normal width; it warns iff
\* characters are left after the weight pass and the slant pass, which took a
\* weight token or nothing and then a slant token or nothing off the input,
\* and what it warns about is what they left; for the empty
\* string it returns normal weight and upright slant and does not warn.
C18_WarnsIffResidual ==
  /\ <>(fsPc = "done")
  /\ [](fsPc = "done" =>
          /\ fsRet.width = "kNormal_Width"
          /\ fsRet.weight = fsWeight /\ fsRet.slant = fsSlant
          /\ Has(fsWarn) <=> fsStyle # <<>>
          /\ \E c \in Consumable : fsInput = c \o fsStyle
          /\ Has(fsWarn) <=> logged = <<"Unknown font style.">>
          /\ ~Has(fsWarn) => logged = <<>>
          /\ Has(fsWarn) => Val(fsWarn) = fsStyle
          /\ fsInput = <<>> =>
               /\ fsRet.weight = "kNormal_Weight" /\ fsRet.slant = "kUpright_Slant"
               /\ ~Has(fsWarn))

\* FontStyle returned for the empty string
C18_Witness == fsPc = "done" /\ fsInput = <<>> /\ fsRet # NullStyle

\* the SkFontStyle of normal weight and upright slant
NormalUpright ==
  [weight |-> "kNormal_Weight", width |-> "kNormal_Width", slant |-> "kUpright_Slant"]

\* the run of C12: the registry is F1 = (Roboto, Regular), there is no glyph
\* data, no font data made a typeface, and every system match asked for
\* (Roboto, normal weight, upright) gave one
F1RobotoRun ==
  /\ pc = "done" /\ in.hasList /\ ~in.hasChars
  /\ DOMAIN fFonts = {"F1"}
  /\ fFonts["F1"].fFamily = "Roboto" /\ fFonts["F1"].fStyle = gWeightMap[1].fName
  /\ \A j \in Idx("loadFont") : trace[j].res = "null"
  /\ \A j \in Idx("matchFamilyStyle") :
       (fFonts[trace[j].font].fFamily = "Roboto" /\ trace[j].style = NormalUpright)
         => trace[j].res = "system"

\* C12: after such a run findFont("F1") gives an entry with a typeface, the
\* native pass returned true and the legacy default was not requested.
C12_F1Roboto ==
  F1RobotoRun =>
    /\ Has(FindFont(fFonts, "F1"))
    /\ Val(FindFont(fFonts, "F1")).fTypeface # "null"
    /\ \E j \in Idx("nativeEnd") : trace[j].res = "true"
    /\ Idx("legacyMakeTypeface") = {}

\* such a run, with the system match asked once for F1
C12_Witness ==
  /\ F1RobotoRun
  /\ \E j \in Idx("matchFamilyStyle") : trace[j].font = "F1" /\ trace[j].res = "system"
  /\ Val(FindFont(fFonts, "F1")).fTypeface = "system"

\* the detach calls made for font n
DetachesOf(n) == {j \in Idx("detach") : trace[j].font = n}

\* C13: no builder is detached more than once, no glyph is inserted into a
\* builder that has been detached, and a glyph is inserted only by the loop of
\* the embedded pass, between its entry and its return.
C13_DetachOnce ==
  /\ [](\A n \in Names : Cardinality(DetachesOf(n)) <= 1)
  /\ [][\A n \in DOMAIN fFonts :
          /\ DetachesOf(n) # {} => fFonts'[n].fCustomBuilder = fFonts[n].fCustomBuilder
          /\ fFonts'[n].fCustomBuilder \notin {fFonts[n].fCustomBuilder, EmptyBuilder} =>
               /\ pc = "set"
               /\ Cardinality(Idx("embeddedBegin")) = Cardinality(Idx("embeddedEnd")) + 1]_vars

\* the optional pass stored a glyph and detached two builders, and the native
\* pass ran after it
C13_Witness ==
  /\ pc = "done"
  /\ \E n, m \in DOMAIN fFonts :
       /\ n # m /\ DetachesOf(n) # {} /\ DetachesOf(m) # {}
       /\ CustomGave(n) /\ NativeCalled(m)

\* the glyph the step stores for the element of the running iteration
StoredGlyph == fFonts'[current_font].fCustomBuilder[Val(jchar.ch)[1]]

\* C14: the advance stored for a glyph is the "w" of its element times 0.01, 0
\* without "w", and the outline stored is the parsed outline with every
\* coordinate times 0.01; in 1/10000 units, 32.67 (326700) is stored as
\* 0.3267 (3267).
C14_ScaledByHundredth ==
  [][pc = "set" =>
       /\ Val(jchar.ch)[1] \in DOMAIN fFonts'[current_font].fCustomBuilder
       /\ \E w \in Widths :
            StoredGlyph.advance * 100 = (IF w = Absent THEN 0 ELSE w[1])
       /\ StoredGlyph.advance \in {0, 3267}
       /\ Len(StoredGlyph.path) = Len(path)
       /\ \A j \in 1..Len(path) : StoredGlyph.path[j] * 100 = path[j]]_vars

\* a glyph stored with the advance 0.3267 and an outline of one scaled shape
C14_Witness ==
  \E n \in DOMAIN fFonts : \E g \in DOMAIN fFonts[n].fCustomBuilder :
    /\ fFonts[n].fCustomBuilder[g].advance = 3267
    /\ Len(fFonts[n].fCustomBuilder[g].path) = 1
    /\ fFonts[n].fCustomBuilder[g].path[1] * 100 \in ShapeCoords

\* the calls of tier ev made for font n
TierCalls(ev, n) == {j \in Idx(ev) : trace[j].font = n}

\* font n had a typeface when the native pass began
ResolvedBeforeNative(n) ==
  \E j \in Idx("detach"), b \in Idx("nativeBegin") :
    j < b /\ trace[j].font = n /\ trace[j].res = "custom"

\* C15: in the native pass each tier is called at most once for a font; the
\* system match is called only after the font data gave no typeface, the
\* legacy default only after the system match gave none; and when the pass
\* has returned, every font that had no typeface when it began went through
\* the tiers up to the first that gave a typeface, whatever the other fonts got.
C15_TierOrder ==
  \A n \in Names :
    /\ \A ev \in NativeTiers : Cardinality(TierCalls(ev, n)) <= 1
    /\ \A j \in TierCalls("matchFamilyStyle", n) :
         \E l \in TierCalls("loadFont", n) : l < j /\ trace[l].res = "null"
    /\ \A j \in TierCalls("legacyMakeTypeface", n) :
         \E m \in TierCalls("matchFamilyStyle", n) : m < j /\ trace[m].res = "null"
    /\ \A l \in TierCalls("loadFont", n) :
         trace[l].res # "null" => TierCalls("matchFamilyStyle", n) = {}
    /\ \A m \in TierCalls("matchFamilyStyle", n) :
         trace[m].res # "null" => TierCalls("legacyMakeTypeface", n) = {}
    /\ (Idx("nativeEnd") # {} /\ n \in DOMAIN fFonts) =>
         /\ TierCalls("loadFont", n) # {} <=> ~ResolvedBeforeNative(n)
         /\ \A l \in TierCalls("loadFont", n) :
              trace[l].res = "null" => TierCalls("matchFamilyStyle", n) # {}
         /\ \A m \in TierCalls("matchFamilyStyle", n) :
              trace[m].res = "null" => TierCalls("legacyMakeTypeface", n) # {}

\* the three tiers failed for one font and the font visited after it was
\* attempted all the same
C15_Witness ==
  /\ Idx("nativeEnd") # {}
  /\ \E n, m \in DOMAIN fFonts :
       \E j \in TierCalls("legacyMakeTypeface", n), l \in TierCalls("loadFont", m) :
         n # m /\ trace[j].res = "null" /\ j < l

\* the element of the running iteration has got its font
FontChosen == pc \in {"data", "group", "item", "set"}

\* the entries that match the element of the running iteration, in foreach order
MatchingFonts ==
  SelectSeq(ForeachOrder(fFonts),
            LAMBDA n : /\ fFonts[n].fFamily = Val(jchar.fFamily)
                       /\ fFonts[n].fStyle = Val(jchar.style))

\* C16: the font chosen for a glyph element, whose builder gets the glyph, is
\* the first entry, in the order of the registry's iteration, whose (family,
\* style) is the element's.
C16_FirstMatch ==
  FontChosen => current_font = Head(MatchingFonts)

\* what the foreach of the lookup gives for the element of the running iteration
FullScan == Locate(fFonts, Val(jchar.fFamily), Val(jchar.style))

\* C17: the font an element gets, with the font located for the element
\* before it tried first, is the font the scan of the whole registry gives
\* for the element, and an element is skipped for want of a font only when
\* that scan finds none.
C17_CacheIsTransparent ==
  /\ FontChosen => current_font = FullScan
  /\ (pc = "skip" /\ logged = <<"Font not found for codepoint.">>) =>
       FullScan = NoFont /\ current_font = NoFont

\* the second element of the list gets the font of the first, which already
\* holds its glyph, in a registry of two fonts with that (family, style)
C17_Witness ==
  /\ FontChosen /\ i = 1
  /\ fFonts[current_font].fCustomBuilder # EmptyBuilder
  /\ Len(MatchingFonts) = 2

\* an element without "ch", or whose "ch" is not one code point, or whose
\* code point is no glyph id
BadChar(h) ==
  /\ h.obj
  /\ \/ ~Has(h.ch)
     \/ CountUTF8(Val(h.ch)) # 1
     \/ ~FitsGlyphID(Val(h.ch)[1])

\* C19: an element of "chars" without character, or whose character is not
\* exactly one code point, or whose code point does not fit a glyph id, is
\* skipped with a message logged, and the loop goes on.
C19_BadCharLogged ==
  BadChar(jchar) => pc = "skip" /\ logged # <<>>

\* every request of the legacy default made so far gave a typeface
LegacyAlwaysGives ==
  \A j \in Idx("legacyMakeTypeface") : trace[j].res # "null"

\* C20: when every request of the legacy default gives a typeface, every
\* registered font has a typeface when parseFonts returns, and with the flag
\* not set the embedded pass is never entered.
C20_LegacyResolvesAll ==
  LegacyAlwaysGives =>
    /\ pc = "done" => AllResolved
    /\ ~in.preferEmbedded => Idx("embeddedBegin") = {}

\* parseFonts returned in native-first mode with glyph data, after the legacy
\* default resolved a font
C20_Witness ==
  /\ pc = "done" /\ in.hasChars /\ ~in.preferEmbedded
  /\ LegacyAlwaysGives
  /\ \E j \in Idx("legacyMakeTypeface") : trace[j].res = "legacy"
  /\ Cardinality(DOMAIN fFonts) = 2

====
